---------------------------- MODULE Spec2Model ----------------------------
(***************************************************************************)
(* Model of phip1611/1brc-rust: the newline-aligned chunk iterator, the    *)
(* fixed-format decimal parser, the per-station aggregate, the per-chunk   *)
(* hot loop over a perfect-hash indexed vector, and the multi-threaded     *)
(* driver with its reduce / sort / print step.                             *)
(*                                                                         *)
(* Bytes are their ASCII codes.  Offsets into byte slices are 0-based as   *)
(* in the source; a slice bytes[a..b] is Slice(bytes, a, b).               *)
(***************************************************************************)
EXTENDS Integers, Sequences, FiniteSets, TLC

VARIABLES
    file_bytes,      \* the byte view handed to ChunkIter / the mapped file
    chunk_count,     \* ChunkIter::new's chunk_count argument
    iter,            \* ChunkIter: [bytes_per_chunk, consumed_bytes]
    iter_state,      \* "active" | "exhausted" (next returned None) | "panicked"
    yielded,         \* the chunks returned by next so far, in order
    parse_input,     \* fast_f32_parse_encoded: its argument
    parse_output,    \* fast_f32_parse_encoded: <<>> before the call, <<result>> after
    agg,             \* one AggregatedData under test
    history,         \* the measurements applied to agg, in order
    pc,              \* process_multi_threaded: where the main thread is
    mmap,            \* the Mmap behind file_bytes: "none" | "live" | "dropped"
    hasher,          \* the PtrHash: [seed, live]
    cpus,            \* cpu_count(bytes.len())
    main,            \* the main thread's own process_file_chunk call
    threads,         \* the spawned workers' process_file_chunk calls, in spawn order
    next_join,       \* finalize: index of the next JoinHandle to join
    combined_results,\* finalize: the combined vector
    stdout,          \* what print_results wrote
    read_after_drop, \* a worker read file_bytes or the hasher after their drop
    file_exists,     \* the path names a file that File::open and mmap accept
    parent,          \* the CLI's parent process: [pc, exit_code, worker_output]
    others,          \* further aggregates with their histories, to merge into agg
    avg_output       \* avg(): <<>> before the call, <<result>> after

vars == <<file_bytes, chunk_count, iter, iter_state, yielded,
          parse_input, parse_output, agg, history,
          pc, mmap, hasher, cpus, main, threads, next_join,
          combined_results, stdout, read_after_drop,
          file_exists, parent, others, avg_output>>

chunkVars == <<file_bytes, chunk_count, iter, iter_state, yielded>>
parseVars == <<parse_input, parse_output>>
aggVars   == <<agg, history>>
mainVars  == <<pc, mmap, hasher, cpus, main, threads, next_join,
               combined_results, stdout, read_after_drop>>
cliVars   == <<file_exists, parent>>
sideVars  == <<others, avg_output>>

(***************************************************************************)
(* Bounds of the model.                                                    *)
(***************************************************************************)
MaxLen == 6          \* longest byte slice given to ChunkIter
MaxChunks == 4       \* largest chunk_count given to ChunkIter
MaxPoints == 3       \* longest sequence of datapoints applied to one aggregate

(***************************************************************************)
(* Bytes.                                                                  *)
(***************************************************************************)
NEWLINE == 10        \* b'\n'
SEMICOLON == 59      \* b';'
MINUS == 45          \* b'-'
DOT == 46            \* b'.'
ZERO == 48           \* b'0'
LETTER_A == 97       \* b'a', the filler byte of the chunk_iter tests

None == -1           \* Option::None of an index

Min(a, b) == IF a < b THEN a ELSE b
Max(a, b) == IF a > b THEN a ELSE b

\* &bytes[a..b]
Slice(bytes, a, b) == SubSeq(bytes, a + 1, b)

\* memchr::memchr(needle, haystack): offset of the first needle, or None
memchr(needle, haystack) ==
    IF \E i \in 1..Len(haystack) : haystack[i] = needle
    THEN (CHOOSE i \in 1..Len(haystack) :
              /\ haystack[i] = needle
              /\ \A j \in 1..(i - 1) : haystack[j] # needle) - 1
    ELSE None

\* A plausible slip: the plain integer division, which rounds down.
div_floor(a, b) == a \div b

\* usize::div_ceil
div_ceil(a, b) == (a + b - 1) \div b

(***************************************************************************)
(* chunk_iter.rs                                                           *)
(***************************************************************************)
ChunkIter_new(bytes, count) ==
    [bytes_per_chunk |-> div_ceil(Len(bytes), count), consumed_bytes |-> 0]

\* i_end_min: the first offset at which the chunk may end
ChunkIter_i_end_min(it, bytes) ==
    LET bytes_left == Len(bytes) - it.consumed_bytes
    IN  it.consumed_bytes + Min(it.bytes_per_chunk, bytes_left) - 1

\* A plausible slip: cut at the nominal size without looking for the newline.
ChunkIter_i_end_actual_nosearch(it, bytes) == ChunkIter_i_end_min(it, bytes)

\* i_end_actual: the first newline at or after i_end_min (None: unwrap panics)
ChunkIter_i_end_actual(it, bytes) ==
    LET i_end_min == ChunkIter_i_end_min(it, bytes)
        found == memchr(NEWLINE, Slice(bytes, i_end_min, Len(bytes)))
    IN  IF found = None THEN None ELSE found + i_end_min

\* A plausible slip: advance by the nominal chunk size, not the chunk's length.
ChunkIter_advance_nominal(it, chunk) ==
    [it EXCEPT !.consumed_bytes = @ + it.bytes_per_chunk]

\* self.consumed_bytes += chunk.len()
ChunkIter_advance(it, chunk) ==
    [it EXCEPT !.consumed_bytes = @ + (chunk.end - chunk.begin)]

\* ChunkIter::next: [tag, chunk, iter] with tag "some" | "none" | "panic"
ChunkIter_next(it, bytes) ==
    LET bytes_left == Len(bytes) - it.consumed_bytes
        i_begin == it.consumed_bytes
        i_end_actual == ChunkIter_i_end_actual(it, bytes)
        chunk == [begin |-> i_begin, end |-> i_end_actual + 1]
    IN  IF bytes_left = 0
        THEN [tag |-> "none", chunk |-> [begin |-> i_begin, end |-> i_begin], iter |-> it]
        ELSE IF i_end_actual = None
        THEN [tag |-> "panic", chunk |-> [begin |-> i_begin, end |-> i_begin], iter |-> it]
        ELSE [tag |-> "some", chunk |-> chunk, iter |-> ChunkIter_advance(it, chunk)]

(***************************************************************************)
(* SpecChunk: ChunkIter driven to exhaustion over every newline-terminated *)
(* slice of up to MaxLen bytes and every chunk count up to MaxChunks.      *)
(***************************************************************************)
ChunkInputs ==
    { b \in UNION { [1..n -> {NEWLINE, LETTER_A}] : n \in 1..MaxLen } :
          b[Len(b)] = NEWLINE }

ParkedParse == parse_input = <<>> /\ parse_output = <<>>
ParkedAgg == agg = <<>> /\ history = <<>>
NoHasher == [seed |-> 0, live |-> FALSE]
NoCall == [chunk |-> [begin |-> 0, end |-> 0], consumed |-> 0, table |-> <<>>,
           state |-> "pending",
           last |-> [tag |-> "none", start |-> 0, delimiter |-> 0, newline |-> 0]]
NotStarted ==
    /\ mmap = "none" /\ hasher = NoHasher /\ cpus = 0
    /\ main = NoCall /\ threads = <<>> /\ next_join = 0
    /\ combined_results = <<>> /\ stdout = <<>> /\ read_after_drop = FALSE
ParkedMain == pc = "unused" /\ NotStarted
NoParent == [pc |-> "unused", exit_code |-> None, worker_output |-> <<>>]
ParkedCli == file_exists = FALSE /\ parent = NoParent
ParkedSide == others = <<>> /\ avg_output = <<>>

InitChunk ==
    /\ file_bytes \in ChunkInputs
    /\ chunk_count \in 1..MaxChunks
    /\ iter = ChunkIter_new(file_bytes, chunk_count)
    /\ iter_state = "active"
    /\ yielded = <<>>
    /\ ParkedParse
    /\ ParkedAgg
    /\ ParkedMain
    /\ ParkedCli
    /\ ParkedSide

\* one call of ChunkIter::next
ChunkIterNext ==
    /\ iter_state = "active"
    /\ LET r == ChunkIter_next(iter, file_bytes)
       IN  /\ iter' = r.iter
           /\ iter_state' = CASE r.tag = "some" -> "active"
                              [] r.tag = "none" -> "exhausted"
                              [] OTHER -> "panicked"
           /\ yielded' = IF r.tag = "some" THEN Append(yielded, r.chunk) ELSE yielded
    /\ UNCHANGED <<file_bytes, chunk_count, parseVars, aggVars, cliVars, sideVars, mainVars>>

NextChunk == ChunkIterNext

SpecChunk == InitChunk /\ [][NextChunk]_vars

\* the bytes of the yielded chunks, concatenated in order
RECURSIVE ConcatChunks(_, _)
ConcatChunks(cs, bytes) ==
    IF cs = <<>> THEN <<>>
    ELSE Slice(bytes, Head(cs).begin, Head(cs).end) \o ConcatChunks(Tail(cs), bytes)

(***************************************************************************)
(* C2: the chunks returned by successive ChunkIter::next calls are         *)
(* contiguous (the first starts at offset 0, each next one starts where    *)
(* the previous ended, so no gap and no overlap), their concatenation is   *)
(* the consumed prefix of B, and next returns None only when               *)
(* consumed_bytes = B.len(), at which point the concatenation is B.        *)
(***************************************************************************)
C2_ChunksConcatenateToInput ==
    /\ iter_state # "panicked"
    /\ \A i \in 1..Len(yielded) :
           yielded[i].begin = (IF i = 1 THEN 0 ELSE yielded[i - 1].end)
    /\ ConcatChunks(yielded, file_bytes) = Slice(file_bytes, 0, iter.consumed_bytes)
    /\ iter_state = "exhausted" =>
           /\ iter.consumed_bytes = Len(file_bytes)
           /\ ConcatChunks(yielded, file_bytes) = file_bytes

\* an exhausted iterator that yielded several chunks, one of them stretched
\* past the nominal size to reach its newline
C2_Witness ==
    /\ iter_state = "exhausted"
    /\ Len(yielded) >= 2
    /\ \E i \in 1..Len(yielded) : yielded[i].end - yielded[i].begin > iter.bytes_per_chunk

(***************************************************************************)
(* C3: every chunk yielded by ChunkIter is non-empty, ends with '\n', and  *)
(* starts at offset 0 of B or right after a '\n': no line is split.        *)
(***************************************************************************)
C3_ChunksAlignedToLines ==
    \A i \in 1..Len(yielded) :
        /\ yielded[i].end > yielded[i].begin
        /\ file_bytes[yielded[i].end] = NEWLINE
        /\ \/ yielded[i].begin = 0
           \/ file_bytes[yielded[i].begin] = NEWLINE

\* a second chunk that starts inside B and whose nominal end fell inside a line
C3_Witness ==
    /\ Len(yielded) >= 2
    /\ yielded[2].begin > 0
    /\ yielded[2].begin + iter.bytes_per_chunk <= Len(file_bytes)
    /\ file_bytes[yielded[2].begin + iter.bytes_per_chunk] # NEWLINE
    /\ yielded[2].end - yielded[2].begin > iter.bytes_per_chunk

(***************************************************************************)
(* lib.rs: fast_f32_parse_encoded                                          *)
(***************************************************************************)
I16_MAX == 32767
I16_MIN == -32768

\* two's-complement wrap of an i16 (release-build arithmetic)
WrapI16(x) == ((x + 32768) % 65536) - 32768

\* (byte - b'0') as i16, the subtraction in u8
digit_of(byte) == (byte - ZERO) % 256

\* A plausible slip: the '.' is fed to the digit accumulation like any byte.
parse_step_nodot(val, byte) == WrapI16(val * 10 + digit_of(byte))

\* the body of `for &byte in bytes`
parse_step(val, byte) ==
    IF byte = DOT THEN val ELSE WrapI16(val * 10 + digit_of(byte))

RECURSIVE parse_loop(_, _)
parse_loop(val, bytes) ==
    IF bytes = <<>> THEN val
    ELSE parse_loop(parse_step(val, Head(bytes)), Tail(bytes))

fast_f32_parse_encoded(input) ==
    LET negative == input[1] = MINUS
        bytes == IF negative THEN Tail(input) ELSE input
        val == parse_loop(0, bytes)
    IN  IF negative THEN WrapI16(-val) ELSE val

(***************************************************************************)
(* SpecParse: fast_f32_parse_encoded applied once to every string of the   *)
(* measurement grammar -?[0-9]{1,2}\.[0-9].                                *)
(***************************************************************************)
Digits == ZERO..(ZERO + 9)

MeasurementStrings ==
    LET unsigned == { <<d, DOT, f>> : d \in Digits, f \in Digits }
                    \cup { <<t>> \o <<d, DOT, f>> : t \in Digits, d \in Digits, f \in Digits }
    IN  unsigned \cup { <<MINUS>> \o u : u \in unsigned }

ParkedChunk ==
    /\ file_bytes = <<>> /\ chunk_count = 0 /\ iter = <<>>
    /\ iter_state = "unused" /\ yielded = <<>>

InitParse ==
    /\ parse_input \in MeasurementStrings
    /\ parse_output = <<>>
    /\ ParkedChunk
    /\ ParkedAgg
    /\ ParkedMain
    /\ ParkedCli
    /\ ParkedSide

\* one call of fast_f32_parse_encoded
FastParse ==
    /\ parse_input # <<>>
    /\ parse_output = <<>>
    /\ parse_output' = <<fast_f32_parse_encoded(parse_input)>>
    /\ UNCHANGED <<parse_input, chunkVars, aggVars, mainVars, cliVars, sideVars>>

NextParse == FastParse

SpecParse == InitParse /\ [][NextParse]_vars

\* ten times the decimal value a measurement string denotes, read by position
TenTimesValue(str) ==
    LET neg == str[1] = MINUS
        u == IF neg THEN Tail(str) ELSE str
        magnitude == IF Len(u) = 3
                     THEN 10 * (u[1] - ZERO) + (u[3] - ZERO)
                     ELSE 100 * (u[1] - ZERO) + 10 * (u[2] - ZERO) + (u[4] - ZERO)
    IN  IF neg THEN 0 - magnitude ELSE magnitude

(***************************************************************************)
(* C8: for every string matching -?[0-9]{1,2}\.[0-9] the parser returns    *)
(* ten times the decimal value, negated under a leading '-', and the       *)
(* result lies in -999..999.                                               *)
(***************************************************************************)
C8_ParseIsTenTimesValue ==
    parse_output # <<>> =>
        /\ parse_output[1] = TenTimesValue(parse_input)
        /\ parse_output[1] \in -999..999

\* "-99.9" parsed to -999: sign, two integer digits and the skipped '.'
C8_Witness ==
    /\ parse_input = <<MINUS, ZERO + 9, ZERO + 9, DOT, ZERO + 9>>
    /\ parse_output = <<-999>>

(***************************************************************************)
(* aggregated_data.rs                                                      *)
(***************************************************************************)
\* AggregatedData::default, then init(name)
AggregatedData_default ==
    [min |-> I16_MAX, max |-> I16_MIN, sum |-> 0, sample_count |-> 0, name |-> <<>>]

AggregatedData_init(a, name) == [a EXCEPT !.name = name]

\* Hasn't received a data point so far.
empty(a) == a.max = I16_MIN

\* A plausible slip: the first datapoint takes the comparison branch too.
add_datapoint_nofirst(a, measurement) ==
    LET lo == IF measurement < a.min THEN measurement ELSE a.min
        hi == IF measurement < a.min THEN a.max
              ELSE IF measurement > a.max THEN measurement ELSE a.max
    IN  [a EXCEPT !.min = lo, !.max = hi,
                  !.sum = @ + measurement, !.sample_count = @ + 1]

add_datapoint(a, measurement) ==
    LET lo == IF empty(a) THEN measurement
              ELSE IF measurement < a.min THEN measurement ELSE a.min
        hi == IF empty(a) THEN measurement
              ELSE IF measurement < a.min THEN a.max
              ELSE IF measurement > a.max THEN measurement ELSE a.max
    IN  [a EXCEPT !.min = lo, !.max = hi,
                  !.sum = @ + measurement, !.sample_count = @ + 1]

\* A plausible slip: the minimum is left as it was.
merge_min_forgotten(a, other) ==
    [a EXCEPT !.max = Max(a.max, other.max),
              !.sum = @ + other.sum,
              !.sample_count = @ + other.sample_count]

\* A plausible slip: the other side's sample count is not added.
merge_count_forgotten(a, other) ==
    [a EXCEPT !.max = Max(a.max, other.max),
              !.min = Min(a.min, other.min),
              !.sum = @ + other.sum]

\* Merge the data with another instance.
merge(a, other) ==
    [a EXCEPT !.max = Max(a.max, other.max),
              !.min = Min(a.min, other.min),
              !.sum = @ + other.sum,
              !.sample_count = @ + other.sample_count]

\* A u32 is kept as two 16-bit limbs <<high, low>>, so that products beyond
\* the range of the model checker's integers keep their exact value.
LIMB == 65536
u32_limbs(n) == <<n \div LIMB, n % LIMB>>
u32_value(limbs) == limbs[1] * LIMB + limbs[2]

\* a * b on u32: the exact product (its high limb unbounded), the product
\* wrapped modulo 2^32, and whether the two differ
u32_mul(a, b) ==
    LET low == (a % LIMB) * b
        high == (a \div LIMB) * b + low \div LIMB
    IN  [exact |-> <<high, low % LIMB>>,
         wrapped |-> <<high % LIMB, low % LIMB>>,
         overflow |-> high >= LIMB]

\* avg: self.sum as f32 / ((self.sample_count * 10) as f32), kept as the
\* dividend and the u32 divisor.  With overflow checks on (debug builds) an
\* overflowing product panics, without them it wraps.
avg(a) ==
    [sum |-> a.sum, divisor |-> u32_mul(a.sample_count, 10).wrapped,
     overflow |-> u32_mul(a.sample_count, 10).overflow]

(***************************************************************************)
(* SpecAvg: avg() on aggregates whose sample_count runs over a grid of     *)
(* CountSteps values up to the size of the dataset, all rows being of one  *)
(* station.  The aggregates hold the extremes -99.9 and 99.9 and further   *)
(* datapoints that leave the sum at -99.9, 0 or 99.9.                      *)
(***************************************************************************)
ROWS_TO_GENERATE == 1000000000
CountSteps == 50
SampleCounts == { (ROWS_TO_GENERATE \div CountSteps) * k : k \in 1..CountSteps }

InitAvg ==
    /\ \E n \in SampleCounts, sum \in {-999, 0, 999} :
           agg = [min |-> -999, max |-> 999, sum |-> sum, sample_count |-> n, name |-> <<>>]
    /\ history = <<>>
    /\ others = <<>>
    /\ avg_output = <<>>
    /\ ParkedChunk
    /\ ParkedParse
    /\ ParkedMain
    /\ ParkedCli

\* one call of AggregatedData::avg, in a build with or without overflow checks
Avg ==
    /\ avg_output = <<>>
    /\ \E debug_assertions \in BOOLEAN :
           LET r == avg(agg)
           IN  avg_output' = IF r.overflow /\ debug_assertions
                             THEN <<[tag |-> "panic", sum |-> 0, divisor |-> <<0, 0>>]>>
                             ELSE <<[tag |-> "ok", sum |-> r.sum, divisor |-> r.divisor]>>
    /\ UNCHANGED <<chunkVars, parseVars, aggVars, mainVars, cliVars, others>>

NextAvg == Avg

SpecAvg == InitAvg /\ [][NextAvg]_vars

(***************************************************************************)
(* SpecAgg: add_datapoint applied to a fresh aggregate, up to MaxPoints    *)
(* times, with scaled measurements drawn from the extremes, zero and the   *)
(* values of the repository's own test.                                    *)
(***************************************************************************)
Measurements == {-999, -157, -1, 0, 100, 999}

InitAgg ==
    /\ agg = AggregatedData_default
    /\ history = <<>>
    /\ ParkedChunk
    /\ ParkedParse
    /\ ParkedMain
    /\ ParkedCli
    /\ ParkedSide

\* one call of AggregatedData::add_datapoint
AddDatapoint ==
    /\ agg # <<>>
    /\ Len(history) < MaxPoints
    /\ \E m \in Measurements :
           /\ agg' = add_datapoint(agg, m)
           /\ history' = Append(history, m)
    /\ UNCHANGED <<chunkVars, parseVars, mainVars, cliVars, others, avg_output>>

NextAgg == AddDatapoint

SpecAgg == InitAgg /\ [][NextAgg]_vars

RECURSIVE SeqSum(_)
SeqSum(q) == IF q = <<>> THEN 0 ELSE Head(q) + SeqSum(Tail(q))

SeqRange(q) == { q[i] : i \in 1..Len(q) }

(***************************************************************************)
(* C7: after any sequence of datapoints applied with add_datapoint to a    *)
(* fresh aggregate, min is the smallest, max the largest, sum the sum and  *)
(* sample_count the number of the measurements applied.                    *)
(***************************************************************************)
C7_AggregateOfDatapoints ==
    history # <<>> =>
        /\ agg.min \in SeqRange(history) /\ \A m \in SeqRange(history) : agg.min <= m
        /\ agg.max \in SeqRange(history) /\ \A m \in SeqRange(history) : agg.max >= m
        /\ agg.sum = SeqSum(history)
        /\ agg.sample_count = Len(history)

\* the Berlin rows of test_process_file_chunk: 10.0 then -15.7
C7_Witness ==
    /\ history = <<100, -157>>
    /\ agg = [min |-> -157, max |-> 100, sum |-> -57, sample_count |-> 2, name |-> <<>>]

(***************************************************************************)
(* SpecMerge: a pool of PoolSize aggregates, each grown from the default   *)
(* value by add_datapoint and by merge with another aggregate of the pool, *)
(* as the per-worker entries of one station and finalize's combined entry  *)
(* are.  `datapoints` of a pool entry is the number of datapoints that     *)
(* went into it, `merged` tells that merge was called on it.               *)
(***************************************************************************)
PoolSize == 3
\* the extreme measurements and one in between
PoolMeasurements == {-999, 100, 999}

NewEntry == [agg |-> AggregatedData_default, datapoints |-> 0, merged |-> FALSE]

RECURSIVE PoolPoints(_)
PoolPoints(pool) ==
    IF pool = <<>> THEN 0 ELSE Head(pool).datapoints + PoolPoints(Tail(pool))

InitMerge ==
    /\ others = [k \in 1..PoolSize |-> NewEntry]
    /\ avg_output = <<>>
    /\ ParkedAgg
    /\ ParkedChunk
    /\ ParkedParse
    /\ ParkedMain
    /\ ParkedCli

\* one call of add_datapoint on the k-th aggregate
AddDatapointAt(k) ==
    /\ PoolPoints(others) < MaxPoints
    /\ \E m \in PoolMeasurements :
           others' = [others EXCEPT ![k].agg = add_datapoint(@, m),
                                    ![k].datapoints = @ + 1]
    /\ UNCHANGED <<chunkVars, parseVars, aggVars, mainVars, cliVars, avg_output>>

\* one call of others[k].merge(&others[j])
MergeInto(k, j) ==
    /\ k # j
    /\ others[k].datapoints + others[j].datapoints <= MaxPoints
    /\ others' = [others EXCEPT ![k].agg = merge(@, others[j].agg),
                                ![k].datapoints = @ + others[j].datapoints,
                                ![k].merged = TRUE]
    /\ UNCHANGED <<chunkVars, parseVars, aggVars, mainVars, cliVars, avg_output>>

NextMerge ==
    \/ \E k \in 1..PoolSize : AddDatapointAt(k)
    \/ \E k, j \in 1..PoolSize : MergeInto(k, j)

SpecMerge == InitMerge /\ [][NextMerge]_vars

(***************************************************************************)
(* lib.rs: data set properties, the perfect hash and the lookup vector     *)
(***************************************************************************)
MaxRows == 3         \* most rows in an input file
MaxCpus == 3         \* largest available_parallelism()

MIN_STATION_LEN == 3
MIN_MEASUREMENT_LEN == 3

\* cpu_count's single-thread threshold.  The source's value is 10000 bytes;
\* it is scaled to the model's file sizes so that both of its branches are
\* taken: every one-row file is below it, every longer file is not.
SMALL_FILE_SIZE == 12

Abha == <<65, 98, 104, 97>>
Jos == <<74, 111, 115>>
Zed == <<90, 101, 100>>          \* a station outside ALL_STATIONS
X == <<88>>                      \* a station shorter than MIN_STATION_LEN

\* Two of the 413 stations of ALL_STATIONS, in the order of the source.
ALL_STATIONS == <<Abha, Jos>>
STATIONS_IN_DATASET == Len(ALL_STATIONS)

\* PtrHash::new(&ALL_STATIONS, ..): a minimal perfect hash, one per seed
HasherSeeds == 0..(STATIONS_IN_DATASET - 1)

RECURSIVE ByteSum(_)
ByteSum(key) == IF key = <<>> THEN 0 ELSE Head(key) + ByteSum(Tail(key))

\* PtrHash::index_minimal: a bijection of ALL_STATIONS onto 0..n-1; any other
\* key lands on some slot of 0..n-1 that the seed and its bytes determine.
index_minimal(hs, key) ==
    IF \E k \in 1..Len(ALL_STATIONS) : ALL_STATIONS[k] = key
    THEN ((CHOOSE k \in 1..Len(ALL_STATIONS) : ALL_STATIONS[k] = key) - 1 + hs.seed)
             % STATIONS_IN_DATASET
    ELSE (ByteSum(key) + hs.seed) % STATIONS_IN_DATASET

\* the map half of init_lookup_structure: every slot named after its station
init_lookup_structure(hs) ==
    [i \in 1..STATIONS_IN_DATASET |->
        AggregatedData_init(AggregatedData_default,
            CHOOSE st \in SeqRange(ALL_STATIONS) : index_minimal(hs, st) = i - 1)]

cpu_count(size, available_parallelism) ==
    IF size < SMALL_FILE_SIZE THEN 1 ELSE available_parallelism

(***************************************************************************)
(* lib.rs: process_file_chunk, one iteration of its loop                   *)
(***************************************************************************)
NoRow == [tag |-> "none", start |-> 0, delimiter |-> 0, newline |-> 0]

\* the two asserts at the head of process_file_chunk
chunk_asserts(bytes) == bytes # <<>> /\ bytes[Len(bytes)] = NEWLINE

\* One loop iteration over `bytes` (the chunk) from consumed_bytes_count.
\* tag "panic": a slice index out of range or unwrap() of a memchr None.
\* Offsets in `row` are absolute in the file (base = the chunk's offset).
process_file_chunk_row(bytes, base, consumed, hs, table) ==
    LET remaining == Slice(bytes, consumed, Len(bytes))
        found_delim == IF MIN_STATION_LEN > Len(remaining) THEN None
                       ELSE memchr(SEMICOLON, Slice(remaining, MIN_STATION_LEN, Len(remaining)))
        delimiter == found_delim + MIN_STATION_LEN
        offset_nl == delimiter + 1 + MIN_MEASUREMENT_LEN
        found_nl == IF found_delim = None \/ offset_nl > Len(remaining) THEN None
                    ELSE memchr(NEWLINE, Slice(remaining, offset_nl, Len(remaining)))
        newline == found_nl + offset_nl
        station == Slice(remaining, 0, delimiter)
        measurement == fast_f32_parse_encoded(Slice(remaining, delimiter + 1, newline))
        index == index_minimal(hs, station)
    IN  IF found_delim = None \/ found_nl = None
        THEN [tag |-> "panic", consumed |-> consumed, table |-> table,
              row |-> [tag |-> "panic", start |-> base + consumed,
                       delimiter |-> 0, newline |-> 0]]
        ELSE [tag |-> "ok", consumed |-> consumed + newline + 1,
              table |-> [table EXCEPT ![index + 1] = add_datapoint(@, measurement)],
              row |-> [tag |-> "ok", start |-> base + consumed,
                       delimiter |-> base + consumed + delimiter,
                       newline |-> base + consumed + newline]]

\* A call of process_file_chunk in flight: its chunk, loop counter and vector.
NewCall(chunk, table) ==
    [chunk |-> chunk, consumed |-> 0, table |-> table, state |-> "running", last |-> NoRow]

\* The call after its next loop iteration (the asserts come before the first;
\* the `while` condition failing after the last makes it return).
StepCall(call, bytes, hs) ==
    LET chunk_bytes == Slice(bytes, call.chunk.begin, call.chunk.end)
        r == process_file_chunk_row(chunk_bytes, call.chunk.begin, call.consumed, hs, call.table)
    IN  IF call.consumed = 0 /\ ~chunk_asserts(chunk_bytes)
        THEN [call EXCEPT !.state = "panicked"]
        ELSE IF r.tag = "panic"
        THEN [call EXCEPT !.state = "panicked", !.last = r.row]
        ELSE [call EXCEPT !.consumed = r.consumed, !.table = r.table, !.last = r.row,
                          !.state = IF r.consumed < Len(chunk_bytes) THEN "running"
                                    ELSE "finished"]

(***************************************************************************)
(* lib.rs: finalize and print_results                                      *)
(***************************************************************************)
\* the body of `for elem in vector` over a whole vector
RECURSIVE merge_vector(_, _, _)
merge_vector(combined, vector, hs) ==
    IF vector = <<>> THEN combined
    ELSE LET elem == Head(vector)
             index == index_minimal(hs, elem.name)
             slot == IF combined[index + 1].name = <<>>
                     THEN AggregatedData_init(combined[index + 1], elem.name)
                     ELSE combined[index + 1]
         IN  merge_vector([combined EXCEPT ![index + 1] = merge(slot, elem)],
                          Tail(vector), hs)

\* str::partial_cmp(a, b) == Less: byte-wise lexicographic order
RECURSIVE name_less(_, _)
name_less(a, b) ==
    IF a = <<>> THEN b # <<>>
    ELSE IF b = <<>> THEN FALSE
    ELSE IF Head(a) # Head(b) THEN Head(a) < Head(b)
    ELSE name_less(Tail(a), Tail(b))

RECURSIVE insert_by_name(_, _)
insert_by_name(elem, sorted) ==
    IF sorted = <<>> THEN <<elem>>
    ELSE IF name_less(Head(sorted).name, elem.name)
    THEN <<Head(sorted)>> \o insert_by_name(elem, Tail(sorted))
    ELSE <<elem>> \o sorted

RECURSIVE sorted_by_name(_)
sorted_by_name(v) ==
    IF v = <<>> THEN <<>> ELSE insert_by_name(Head(v), sorted_by_name(Tail(v)))

\* A plausible slip: the vector is printed in hash-index order.
sort_unstable_by_name_skipped(v) == v

\* combined_results.sort_unstable_by(|a, b| a.name().partial_cmp(b.name()).unwrap())
sort_unstable_by_name(v) == sorted_by_name(v)

\* print_results: one "name=min/avg/max" field per entry of the iterator, in
\* order.  The numbers are kept as the scaled integers that are formatted:
\* min and max over 10, avg as sum over sample_count * 10.
print_results(stats) ==
    [i \in 1..Len(stats) |->
        [name |-> stats[i].name, min |-> stats[i].min, max |-> stats[i].max,
         avg |-> <<avg(stats[i]).sum, u32_value(avg(stats[i]).divisor)>>]]

(***************************************************************************)
(* Input files: up to MaxRows rows "<station>;<measurement>\n" with        *)
(* stations inside and outside ALL_STATIONS, of the minimum length and     *)
(* shorter, and measurements of the shortest and the longest form.         *)
(***************************************************************************)
InputStations == {Abha, Jos, Zed, X}
InputMeasurements == { <<ZERO + 6, DOT, ZERO + 6>>,                    \* 6.6
                       <<MINUS, ZERO + 1, ZERO + 5, DOT, ZERO + 7>> }  \* -15.7

Rows == { st \o <<SEMICOLON>> \o m \o <<NEWLINE>> :
              st \in InputStations, m \in InputMeasurements }

RECURSIVE FilesOfRows(_)
FilesOfRows(k) ==
    IF k = 0 THEN { <<>> }
    ELSE { r \o rest : r \in Rows, rest \in FilesOfRows(k - 1) }

InputFiles == UNION { FilesOfRows(k) : k \in 1..MaxRows }

(***************************************************************************)
(* Spec: process_multi_threaded(path, print) on every input file, with     *)
(* the spawned workers interleaved with the main thread.                   *)
(*   pc: "start" -> "spawn" -> "main_chunk" -> "assert" -> "join"          *)
(*       -> "finalized" -> "exited", or from any panic of the main thread  *)
(*       "panicking" -> "unwound" -> "aborted".                            *)
(***************************************************************************)
Init ==
    /\ \/ file_exists = TRUE /\ file_bytes \in InputFiles
       \/ file_exists = FALSE /\ file_bytes = <<>>
    /\ parent = NoParent
    /\ ParkedSide
    /\ chunk_count = 0 /\ iter = ChunkIter_new(<<>>, 1)
    /\ iter_state = "unused" /\ yielded = <<>>
    /\ ParkedParse
    /\ ParkedAgg
    /\ pc = "start"
    /\ NotStarted

\* lines 483 and 529-536: File::open(path).unwrap() or map(&file).unwrap()
\* panics in open_file, before anything else exists
OpenFileFails ==
    /\ pc = "start"
    /\ ~file_exists
    /\ pc' = "panicking"
    /\ UNCHANGED <<chunkVars, parseVars, aggVars, cliVars, sideVars, mmap, hasher, cpus,
                   main, threads, next_join, combined_results, stdout, read_after_drop>>

\* lines 483-494: open_file, init_lookup_structure, cpu_count, ChunkIter::new
\* and the main thread's chunk
Setup ==
    /\ pc = "start"
    /\ file_exists
    /\ \E seed \in HasherSeeds, available_parallelism \in 1..MaxCpus :
           LET hs == [seed |-> seed, live |-> TRUE]
               n == cpu_count(Len(file_bytes), available_parallelism)
               r == ChunkIter_next(ChunkIter_new(file_bytes, n), file_bytes)
           IN  /\ mmap' = "live"
               /\ hasher' = hs
               /\ cpus' = n
               /\ chunk_count' = n
               /\ iter' = r.iter
               /\ iter_state' = IF r.tag = "some" THEN "active" ELSE "panicked"
               /\ yielded' = IF r.tag = "some" THEN <<r.chunk>> ELSE <<>>
               /\ main' = [NewCall(r.chunk, init_lookup_structure(hs))
                               EXCEPT !.state = "pending"]
               /\ pc' = IF r.tag = "some" THEN "spawn" ELSE "panicking"
    /\ UNCHANGED <<file_bytes, parseVars, aggVars, cliVars, sideVars, threads, next_join,
                   combined_results, stdout, read_after_drop>>

\* lines 496-507: one turn of `for chunk in iter`, spawning a worker on Some
SpawnWorker ==
    /\ pc = "spawn"
    /\ LET r == ChunkIter_next(iter, file_bytes)
       IN  /\ iter' = r.iter
           /\ iter_state' = CASE r.tag = "some" -> "active"
                              [] r.tag = "none" -> "exhausted"
                              [] OTHER -> "panicked"
           /\ yielded' = IF r.tag = "some" THEN Append(yielded, r.chunk) ELSE yielded
           /\ threads' = IF r.tag = "some"
                         THEN Append(threads, NewCall(r.chunk, main.table))
                         ELSE threads
           /\ main' = IF r.tag = "none" THEN [main EXCEPT !.state = "running"] ELSE main
           /\ pc' = CASE r.tag = "some" -> "spawn"
                      [] r.tag = "none" -> "main_chunk"
                      [] OTHER -> "panicking"
    /\ UNCHANGED <<file_bytes, chunk_count, parseVars, aggVars, cliVars, sideVars, mmap, hasher, cpus,
                   next_join, combined_results, stdout, read_after_drop>>

\* line 509: one loop iteration of the main thread's process_file_chunk
MainRow ==
    /\ pc = "main_chunk"
    /\ main' = StepCall(main, file_bytes, hasher)
    /\ pc' = CASE main'.state = "panicked" -> "panicking"
               [] main'.state = "finished" -> "assert"
               [] OTHER -> "main_chunk"
    /\ UNCHANGED <<chunkVars, parseVars, aggVars, cliVars, sideVars, mmap, hasher, cpus, threads,
                   next_join, combined_results, stdout, read_after_drop>>

\* lines 511-515 and 650: the debug_assert_eq! (debug builds only), then
\* finalize allocates combined_results
DebugAssert ==
    /\ pc = "assert"
    /\ \E debug_assertions \in BOOLEAN :
           IF debug_assertions /\ Len(threads) # cpus - 1
           THEN /\ pc' = "panicking"
                /\ UNCHANGED <<next_join, combined_results>>
           ELSE /\ pc' = "join"
                /\ next_join' = 1
                /\ combined_results' =
                       [i \in 1..STATIONS_IN_DATASET |-> AggregatedData_default]
    /\ UNCHANGED <<chunkVars, parseVars, aggVars, cliVars, sideVars, mmap, hasher, cpus, main, threads,
                   stdout, read_after_drop>>

\* a join that takes whatever table the worker left behind, also that of a
\* worker that panicked
join_unwrap_lenient(call) == TRUE

\* line 519: handle.join().unwrap() gives the worker's table when the worker
\* returned, and panics when join reports the worker's panic
join_unwrap(call) == call.state = "finished"

\* lines 517-519 and 653-663: finalize pulls the next vector out of the
\* iterator, i.e. joins the next worker (unwrap: a panicked worker panics the
\* main thread), and merges it
JoinWorker ==
    /\ pc = "join"
    /\ next_join <= Len(threads)
    /\ threads[next_join].state \in {"finished", "panicked"}
    /\ IF join_unwrap(threads[next_join])
       THEN /\ combined_results' =
                   merge_vector(combined_results, threads[next_join].table, hasher)
            /\ threads' = [threads EXCEPT ![next_join].state = "joined"]
            /\ next_join' = next_join + 1
            /\ pc' = pc
       ELSE /\ pc' = "panicking"
            /\ UNCHANGED <<combined_results, threads, next_join>>
    /\ UNCHANGED <<chunkVars, parseVars, aggVars, cliVars, sideVars, mmap, hasher, cpus, main,
                   stdout, read_after_drop>>

\* process_multi_threaded's `print` argument: any value for a library call,
\* true for the CLI's worker process (multi-threaded.rs line 48)
PrintArguments == IF parent = NoParent THEN BOOLEAN ELSE {TRUE}

\* lines 520 and 653-674: the chained main-thread vector is merged, the
\* combined vector sorted and, with print, printed
FinalizeRest ==
    /\ pc = "join"
    /\ next_join > Len(threads)
    /\ \E print \in PrintArguments :
           /\ combined_results' =
                  sort_unstable_by_name(merge_vector(combined_results, main.table, hasher))
           /\ stdout' = IF print THEN print_results(combined_results') ELSE <<>>
    /\ pc' = "finalized"
    /\ UNCHANGED <<chunkVars, parseVars, aggVars, cliVars, sideVars, mmap, hasher, cpus, main, threads,
                   next_join, read_after_drop>>

\* line 523: the function returns; hasher and _mmap are dropped
Return ==
    /\ pc = "finalized"
    /\ mmap' = "dropped"
    /\ hasher' = [hasher EXCEPT !.live = FALSE]
    /\ pc' = "exited"
    /\ UNCHANGED <<chunkVars, parseVars, aggVars, cliVars, sideVars, cpus, main, threads, next_join,
                   combined_results, stdout, read_after_drop>>

\* a panic of the main thread unwinds process_multi_threaded: the JoinHandles
\* are dropped (the workers detached), then hasher and _mmap
Unwind ==
    /\ pc = "panicking"
    /\ mmap' = IF mmap = "live" THEN "dropped" ELSE mmap
    /\ hasher' = [hasher EXCEPT !.live = FALSE]
    /\ pc' = "unwound"
    /\ UNCHANGED <<chunkVars, parseVars, aggVars, cliVars, sideVars, cpus, main, threads, next_join,
                   combined_results, stdout, read_after_drop>>

\* the panicked main thread ends the process; running workers die with it
Abort ==
    /\ pc = "unwound"
    /\ pc' = "aborted"
    /\ threads' = [w \in 1..Len(threads) |->
                      IF threads[w].state = "running"
                      THEN [threads[w] EXCEPT !.state = "killed"] ELSE threads[w]]
    /\ UNCHANGED <<chunkVars, parseVars, aggVars, cliVars, sideVars, mmap, hasher, cpus, main, next_join,
                   combined_results, stdout, read_after_drop>>

\* line 505: one loop iteration of a spawned worker's process_file_chunk
WorkerRow(w) ==
    /\ pc \notin {"aborted", "exited"}
    /\ threads[w].state = "running"
    /\ mmap = "live"
    /\ threads' = [threads EXCEPT ![w] = StepCall(threads[w], file_bytes, hasher)]
    /\ UNCHANGED <<chunkVars, parseVars, aggVars, cliVars, sideVars, pc, mmap, hasher, cpus, main,
                   next_join, combined_results, stdout, read_after_drop>>

\* The same iteration after _mmap and hasher were dropped: undefined
\* behaviour.  The read either faults (the process dies) or still sees the
\* old bytes and the iteration goes on.
WorkerRowAfterDrop(w) ==
    /\ pc \notin {"aborted", "exited"}
    /\ threads[w].state = "running"
    /\ mmap = "dropped"
    /\ read_after_drop' = TRUE
    /\ \/ /\ threads' = [threads EXCEPT ![w] = StepCall(threads[w], file_bytes, hasher)]
          /\ pc' = pc
       \/ /\ threads' = [v \in 1..Len(threads) |->
                            IF threads[v].state = "running"
                            THEN [threads[v] EXCEPT !.state = "killed"] ELSE threads[v]]
          /\ pc' = "aborted"
    /\ UNCHANGED <<chunkVars, parseVars, aggVars, cliVars, sideVars, mmap, hasher, cpus, main,
                   next_join, combined_results, stdout>>

Next ==
    \/ OpenFileFails
    \/ Setup
    \/ SpawnWorker
    \/ MainRow
    \/ DebugAssert
    \/ JoinWorker
    \/ FinalizeRest
    \/ Return
    \/ Unwind
    \/ Abort
    \/ \E w \in 1..Len(threads) : WorkerRow(w)
    \/ \E w \in 1..Len(threads) : WorkerRowAfterDrop(w)

Spec == Init /\ [][Next]_vars

(***************************************************************************)
(* SpecCli: bin/multi-threaded.rs.  The parent process starts itself again *)
(* as the `is_worker` child, which runs process_multi_threaded(file, true) *)
(* with its standard output in a pipe; the parent reads one line from the  *)
(* pipe, prints it and returns from main.                                  *)
(***************************************************************************)
EXIT_SUCCESS == 0
\* exit status of a Rust process whose main thread panicked
EXIT_PANIC == 101

InitCli ==
    /\ \/ file_exists = TRUE /\ file_bytes \in InputFiles
       \/ file_exists = FALSE /\ file_bytes = <<>>
    /\ parent = [pc |-> "start", exit_code |-> None, worker_output |-> <<>>]
    /\ chunk_count = 0 /\ iter = ChunkIter_new(<<>>, 1)
    /\ iter_state = "unused" /\ yielded = <<>>
    /\ ParkedParse
    /\ ParkedAgg
    /\ ParkedSide
    /\ pc = "unspawned"
    /\ NotStarted

\* lines 52-56: Command::new(program).args([file, "is_worker"])
\* .stdout(Stdio::piped()).spawn().unwrap(): the child starts, or spawn's Err
\* panics the parent
ParentSpawn ==
    /\ parent.pc = "start"
    /\ \E spawned \in BOOLEAN :
           IF spawned
           THEN /\ pc' = "start"
                /\ parent' = [parent EXCEPT !.pc = "read_line"]
           ELSE /\ pc' = pc
                /\ parent' = [parent EXCEPT !.pc = "exited", !.exit_code = EXIT_PANIC]
    /\ UNCHANGED <<chunkVars, parseVars, aggVars, sideVars, file_exists, mmap, hasher, cpus,
                   main, threads, next_join, combined_results, stdout, read_after_drop>>

\* the child's end of the pipe is closed: the child process is gone
PipeClosed == pc \in {"exited", "aborted"}

\* lines 66-69: read_line returns with the line the child wrote, or with
\* Ok(0) and nothing appended at end of file; the parent prints what it got
\* and the elapsed time and returns from main
ParentReadLine ==
    /\ parent.pc = "read_line"
    /\ stdout # <<>> \/ PipeClosed
    /\ parent' = [parent EXCEPT !.pc = "exited", !.exit_code = EXIT_SUCCESS,
                                !.worker_output = stdout]
    /\ UNCHANGED <<chunkVars, parseVars, aggVars, sideVars, file_exists, mainVars>>

NextCli ==
    \/ ParentSpawn
    \/ ParentReadLine
    \/ Next

SpecCli == InitCli /\ [][NextCli]_vars

(***************************************************************************)
(* What the input says, read off the bytes by the grammar alone.           *)
(***************************************************************************)
\* the rows of a newline-terminated byte sequence, each split at its first ';'
RECURSIVE GrammarRows(_)
GrammarRows(bytes) ==
    IF bytes = <<>> THEN <<>>
    ELSE LET nl == memchr(NEWLINE, bytes)
             line == Slice(bytes, 0, nl)
             d == memchr(SEMICOLON, line)
         IN  <<[station |-> Slice(line, 0, d), measurement |-> Slice(line, d + 1, nl)]>>
             \o GrammarRows(Slice(bytes, nl + 1, Len(bytes)))

\* offset of the first `needle` at or after offset `from` of the file
FirstAt(needle, from) == memchr(needle, Slice(file_bytes, from, Len(file_bytes))) + from

IsRowStart(offset) == offset = 0 \/ file_bytes[offset] = NEWLINE

Calls == {main} \cup SeqRange(threads)

ChunkBytes(call) == Slice(file_bytes, call.chunk.begin, call.chunk.end)

\* (min, max, sum, count) per station name of a vector
Tuples(v) ==
    { <<v[i].name, v[i].min, v[i].max, v[i].sum, v[i].sample_count>> : i \in 1..Len(v) }

\* process_single_threaded's way: process_file_chunk once over the whole file
RECURSIVE RunCall(_, _, _)
RunCall(call, bytes, hs) ==
    IF call.state = "running" THEN RunCall(StepCall(call, bytes, hs), bytes, hs) ELSE call

Sequential ==
    RunCall(NewCall([begin |-> 0, end |-> Len(file_bytes)], init_lookup_structure(hasher)),
            file_bytes, hasher)

SequentialCombined ==
    sort_unstable_by_name(
        merge_vector([i \in 1..STATIONS_IN_DATASET |-> AggregatedData_default],
                     Sequential.table, hasher))

(***************************************************************************)
(* C1: for every grammar-conforming input and every worker count, the      *)
(* multi-threaded run ends with the combined table that one                *)
(* process_file_chunk call over the whole input yields, station by station *)
(* in (min, max, sum, count); in particular it yields a table whenever the *)
(* sequential run does.                                                    *)
(***************************************************************************)
C1_CombinedEqualsSequential ==
    /\ pc \in {"finalized", "exited"} =>
           /\ Sequential.state = "finished"
           /\ Tuples(combined_results) = Tuples(SequentialCombined)
    /\ pc \in {"panicking", "unwound", "aborted"} => Sequential.state = "panicked"

(***************************************************************************)
(* C4: the table that finalize sorts and hands to print_results holds      *)
(* exactly the station names that occur in an input row, each with         *)
(* count >= 1.                                                             *)
(***************************************************************************)
C4_OnlyObservedStations ==
    pc = "finalized" =>
        /\ \A i \in 1..Len(combined_results) : combined_results[i].sample_count >= 1
        /\ { combined_results[i].name : i \in 1..Len(combined_results) }
               = { r.station : r \in SeqRange(GrammarRows(file_bytes)) }

(***************************************************************************)
(* C5: when a process_file_chunk call has returned, every station name of  *)
(* its chunk has an entry under exactly that name, and every entry counts  *)
(* exactly the rows of its own name: rows of different stations are never  *)
(* accumulated into the same aggregate.                                    *)
(***************************************************************************)
C5_EntryPerStationName ==
    \A call \in Calls :
        call.state \in {"finished", "joined"} =>
            LET rows == GrammarRows(ChunkBytes(call))
                RowsOf(name) == { j \in 1..Len(rows) : rows[j].station = name }
            IN  /\ \A j \in 1..Len(rows) :
                       \E i \in 1..Len(call.table) : call.table[i].name = rows[j].station
                /\ \A i \in 1..Len(call.table) :
                       call.table[i].sample_count = Cardinality(RowsOf(call.table[i].name))

(***************************************************************************)
(* C6: every loop iteration of process_file_chunk starts at a row's first  *)
(* byte, takes that row's own ';' as the delimiter and that row's own '\n' *)
(* as the newline, and leaves the cursor on the byte after that '\n'; no   *)
(* iteration fails on a chunk of grammar-conforming rows.                  *)
(***************************************************************************)
C6_RowBoundariesExact ==
    \A call \in Calls :
        /\ call.last.tag # "panic"
        /\ call.last.tag = "ok" =>
               /\ IsRowStart(call.last.start)
               /\ call.last.delimiter = FirstAt(SEMICOLON, call.last.start)
               /\ call.last.newline = FirstAt(NEWLINE, call.last.start)
               /\ call.chunk.begin + call.consumed = call.last.newline + 1

StrictlyIncreasingNames(v) ==
    \A i \in 1..Len(v) : \A j \in 1..Len(v) : i < j => name_less(v[i].name, v[j].name)

(***************************************************************************)
(* C9: the entries finalize passes to print_results are strictly           *)
(* increasing in station name under byte-wise lexicographic order, so no   *)
(* two share a name, and they are printed in that order.                   *)
(***************************************************************************)
C9_OutputStrictlySorted ==
    pc \in {"finalized", "exited"} =>
        /\ StrictlyIncreasingNames(combined_results)
        /\ stdout # <<>> =>
               /\ StrictlyIncreasingNames(stdout)
               /\ Len(stdout) = Len(combined_results)
               /\ \A i \in 1..Len(stdout) : stdout[i].name = combined_results[i].name

\* a printed result of a run with a spawned worker whose rows came in
\* descending name order and whose hash order is not the name order
C9_Witness ==
    /\ pc = "finalized"
    /\ stdout # <<>>
    /\ Len(threads) >= 1
    /\ index_minimal(hasher, Jos) < index_minimal(hasher, Abha)
    /\ LET rows == GrammarRows(file_bytes)
       IN  Len(rows) >= 2 /\ rows[1].station = Jos /\ rows[2].station = Abha

(***************************************************************************)
(* C10: in no execution does a worker thread read the mapped bytes or the  *)
(* hasher after process_multi_threaded has dropped them.                   *)
(***************************************************************************)
C10_NoWorkerReadAfterDrop == read_after_drop = FALSE


\* the call left its loop by the loop condition: it consumed its whole chunk
RanToEnd(call) == call.consumed = call.chunk.end - call.chunk.begin

\* C11: when a worker aborts in process_file_chunk (a spawned thread or the
\* main thread on its own chunk) the computation never reaches the end of
\* finalize and nothing is written to standard output; whatever is on
\* standard output was written after the main chunk returned and every
\* spawned worker was joined and merged.
C11_NoOutputAfterWorkerAbort ==
    /\ (main.state = "panicked" \/ \E w \in 1..Len(threads) : threads[w].state = "panicked")
           => (stdout = <<>> /\ pc \notin {"finalized", "exited"})
    /\ pc \in {"panicking", "unwound", "aborted"} => stdout = <<>>
    /\ stdout # <<>> =>
           /\ main.state = "finished" /\ RanToEnd(main)
           /\ \A w \in 1..Len(threads) :
                  threads[w].state = "joined" /\ RanToEnd(threads[w])

\* a spawned worker panicked, the process has aborted and has printed nothing
C11_Witness ==
    /\ pc = "aborted"
    /\ main.state = "finished"
    /\ \E w \in 1..Len(threads) : threads[w].state = "panicked"
    /\ stdout = <<>>

\* C12: the multi-threaded CLI's parent process exits with code 0 only when
\* the child produced the result line, and with a non-zero code whenever the
\* child failed fatally (file not opened or mapped, or the core aborted)
\* before writing that line.
C12_ExitCodeReflectsChild ==
    parent.pc = "exited" =>
        /\ parent.exit_code = EXIT_SUCCESS => parent.worker_output # <<>>
        /\ (pc = "aborted" /\ stdout = <<>>) => parent.exit_code # EXIT_SUCCESS

\* C13: in process_multi_threaded, ChunkIter::new(bytes, n) with n =
\* cpu_count(len) yields exactly n chunks, so exactly n - 1 worker threads
\* are spawned besides the main thread's chunk and the assertion
\* thread_handles.len() == cpus - 1 holds.
C13_SpawnsCpusMinusOneWorkers ==
    pc = "assert" => (Len(yielded) = cpus /\ Len(threads) = cpus - 1)

\* the chunk holds a complete line: it is not empty and ends with a newline
HoldsCompleteLine(chunk, bytes) ==
    /\ chunk.begin < chunk.end
    /\ chunk.end <= Len(bytes)
    /\ bytes[chunk.end] = NEWLINE

\* C14: for a non-empty slice B ending in a newline and N >= 1, ChunkIter
\* works with bytes_per_chunk = ceil(len / N), yields at least one and at
\* most N chunks, each of them non-empty and holding at least one complete
\* line; consumed_bytes never exceeds B.len() and grows strictly with every
\* chunk returned, so the iteration ends.
C14_AtMostNChunksAndTermination ==
    /\ [](/\ iter_state # "panicked"
          /\ iter.bytes_per_chunk * chunk_count >= Len(file_bytes)
          /\ (iter.bytes_per_chunk - 1) * chunk_count < Len(file_bytes)
          /\ Len(yielded) <= chunk_count
          /\ iter_state = "exhausted" => Len(yielded) >= 1
          /\ \A i \in 1..Len(yielded) : HoldsCompleteLine(yielded[i], file_bytes)
          /\ iter.consumed_bytes <= Len(file_bytes))
    /\ [][/\ Len(yielded') > Len(yielded) => iter'.consumed_bytes > iter.consumed_bytes
          /\ iter_state' = "exhausted" => iter.consumed_bytes = Len(file_bytes)]_vars

\* the iterator ended after fewer chunks than asked for
C14_Witness ==
    /\ iter_state = "exhausted"
    /\ chunk_count = 3
    /\ Len(yielded) = 2
    /\ iter.consumed_bytes = Len(file_bytes)

\* the fields merge works on
MergeFields(a) == <<a.min, a.max, a.sum, a.sample_count>>

\* finalize's combined entry of one station: the default value with the
\* workers' entries merged into it in the given order
RECURSIVE MergeAll(_, _)
MergeAll(combined, entries) ==
    IF entries = <<>> THEN combined
    ELSE MergeAll(merge(combined, Head(entries)), Tail(entries))

\* the orders in which the pool's aggregates can arrive at finalize
MergeOrders ==
    { p \in [1..PoolSize -> 1..PoolSize] : \A i, j \in 1..PoolSize : p[i] = p[j] => i = j }

\* C15: on (min, max, sum, count) merge is commutative and associative and
\* the default aggregate is its identity on both sides, so the combined
\* entry finalize builds from the default value is the same for every
\* order of the workers' entries, empty entries included.
C15_MergeOrderIndependent ==
    others # <<>> =>
        /\ \A k, j \in 1..PoolSize :
               MergeFields(merge(others[k].agg, others[j].agg))
                   = MergeFields(merge(others[j].agg, others[k].agg))
        /\ \A p \in MergeOrders :
               MergeFields(merge(merge(others[p[1]].agg, others[p[2]].agg), others[p[3]].agg))
                   = MergeFields(merge(others[p[1]].agg, merge(others[p[2]].agg, others[p[3]].agg)))
        /\ \A k \in 1..PoolSize :
               /\ MergeFields(merge(others[k].agg, AggregatedData_default))
                      = MergeFields(others[k].agg)
               /\ MergeFields(merge(AggregatedData_default, others[k].agg))
                      = MergeFields(others[k].agg)
        /\ \A p \in MergeOrders :
               MergeFields(MergeAll(AggregatedData_default, [i \in 1..PoolSize |-> others[p[i]].agg]))
                   = MergeFields(MergeAll(AggregatedData_default, [i \in 1..PoolSize |-> others[i].agg]))

\* an empty entry, an entry with one datapoint and an entry that came out of
\* a merge and holds other extremes
C15_Witness ==
    /\ others # <<>>
    /\ empty(others[1].agg)
    /\ others[2].datapoints = 1 /\ others[2].agg.sum = 100
    /\ others[3].merged
    /\ others[3].agg.min = -999 /\ others[3].agg.max = 999

\* C16: in every aggregate reachable from the default value by add_datapoint
\* (measurements in -999..=999) and merge calls, count > 0 iff a datapoint
\* went into it, empty() iff count = 0, and with count > 0 both min <= max
\* and min * count <= sum <= max * count.
C16_AggregateInvariants ==
    \A k \in 1..Len(others) :
        LET a == others[k].agg
        IN  /\ a.sample_count > 0 <=> others[k].datapoints > 0
            /\ empty(a) <=> a.sample_count = 0
            /\ a.sample_count > 0 =>
                   /\ a.min <= a.max
                   /\ a.min * a.sample_count <= a.sum
                   /\ a.sum <= a.max * a.sample_count

\* an aggregate that was merged into while empty and got a datapoint after
\* that, and one that a still empty aggregate was merged into
C16_Witness ==
    /\ others # <<>>
    /\ others[1].merged /\ others[1].datapoints = 3
    /\ others[1].agg.min < others[1].agg.max
    /\ others[2].merged /\ others[2].datapoints = 1
    /\ empty(others[3].agg)

\* C17: for every aggregate whose count is within the supported input size
\* (up to 10^9 observations, possibly all of one station) the divisor that
\* avg() computes is count * 10 exactly: the 32-bit product neither wraps
\* nor traps, and the count itself fits its field.
C17_AvgDivisorExact ==
    /\ (agg # <<>> /\ agg.sample_count <= ROWS_TO_GENERATE) =>
           u32_limbs(agg.sample_count)[1] < LIMB
    /\ (avg_output # <<>> /\ agg.sample_count <= ROWS_TO_GENERATE) =>
           /\ avg_output[1].tag = "ok"
           /\ avg_output[1].divisor = u32_mul(agg.sample_count, 10).exact

=========================================================================
